---- MODULE Spec2Model ----
(***************************************************************************)
(* Model of the OpenGL backend's context layer (src/backend/gl/src/lib.rs): *)
(*   - Share, the state shared by the physical and the logical device,      *)
(*     with its `open` cell;                                                *)
(*   - PhysicalDevice::open and PhysicalDevice::memory_properties;          *)
(*   - Starc / Wstarc, the thread-bound wrappers of Arc / Weak.             *)
(* Two specifications: Spec (the device-open protocol and the memory        *)
(* types) and SpecStarc (the wrapper algebra over one shared value).        *)
(***************************************************************************)
EXTENDS Naturals, Integers, Sequences, FiniteSets

\* ------------------------------------------------------------------ bounds
\* Longest `families` slice handed to open().
MaxFamilies == 2
\* Number of Gpu values (a Device with its Queues) the application may hold
\* at once.
MaxGpus == 2
\* Number of vertex-array names the context hands out before the model stops
\* opening devices (caps the GenVertexArrays counter).
MaxVaos == 2
\* Number of Starc values of one shared state that may be alive at once.
MaxStarcs == 3
\* Number of Wstarc values of one shared state that may be alive at once.
MaxWstarcs == 2
\* Number of batches submitted to the queues before the model stops
\* submitting (caps the native-call log).
MaxBatches == 2

\* The threads of the process, by ThreadId.
Threads == {"t1", "t2"}
\* The thread that enumerates the adapter (thread ids are interchangeable).
AdapterThread == "t1"
\* The bits of hal::Features that the model distinguishes.
FeatureBits == {"f1", "f2"}
\* The lengths a family's priority slice may have: none, the one the
\* contract asks for, too many.
PriorityLens == {0, 1, 2}
\* How many commands a submitted batch can hold.
BatchLens == {1, 2}
GpuIds == 1..MaxGpus

\* ------------------------------------------------------------------ state
VARIABLES
    share,      \* the immutable fields of Share: the capability registry
    open,       \* Share.open : Cell<bool>
    pd,         \* PhysicalDevice(Starc<Share>): the wrapper's `thread` field
    gl,         \* the state of the native context that open() touches
    gpus,       \* the Gpu values alive: a Device and its queue groups
    aborted,    \* a check() of open() has panicked ("Error opening adapter")
    last,       \* the last call of open(): its inputs, outcome, state before
    memProps,   \* the last result of memory_properties()
    strong,     \* the strong count of the Arc<Share> behind `pd`
    starcs,     \* SpecStarc: strong wrappers, by slot
    wstarcs,    \* SpecStarc: weak wrappers, by slot
    arc,        \* SpecStarc: the ArcInner: strong/weak counts, value, state
    slast,      \* SpecStarc: the last wrapper operation and its outcome
    submits,    \* SpecSubmit: per thread, the submit() call it is running
    batches,    \* SpecSubmit: how many batches have been submitted
    native      \* SpecSubmit: the native calls issued by submissions

openVars == <<share, open, pd, gl, gpus, aborted, last, memProps, strong>>
starcVars == <<starcs, wstarcs, arc, slast>>
subVars == <<submits, batches, native>>
vars == <<share, open, pd, gl, gpus, aborted, last, memProps, strong,
          starcs, wstarcs, arc, slast, submits, batches, native>>

\* ------------------------------------------------ Starc::deref (shared)
\* Variant: deref without the thread-identity assertion.
DerefOk_unchecked(starc, cur) == TRUE

\* assert_eq!(thread::current().id(), self.thread)
DerefOk(starc, cur) == cur = starc.thread

\* ------------------------------------------------ Starc::clone (shared)
\* Variant: a clone stamped with the thread that makes it.
CloneOf_current(w, cur) == [thread |-> cur]

\* The fields of a clone made on thread cur: arc: self.arc.clone(),
\* thread: self.thread.
CloneOf(w, cur) == [thread |-> w.thread]

\* ------------------------------------------------ the native context
\* The context state before any call: GL's documented initial values.
GlInit == [srgb |-> FALSE, unpack |-> 4, point_size |-> FALSE,
           vaos |-> 0, bound |-> 0]

\* The effect of one native call on the context (`a` is the call's argument,
\* 0 where it has none). GenVertexArrays hands out the next unused name.
GlApply(g, c, a) ==
    CASE c = "Enable(FRAMEBUFFER_SRGB)"        -> [g EXCEPT !.srgb = TRUE]
      [] c = "PixelStorei(UNPACK_ALIGNMENT,1)" -> [g EXCEPT !.unpack = 1]
      [] c = "Enable(PROGRAM_POINT_SIZE)"      -> [g EXCEPT !.point_size = TRUE]
      [] c = "GenVertexArrays"                 -> [g EXCEPT !.vaos = @ + 1]
      [] c = "BindVertexArray"                 -> [g EXCEPT !.bound = a]
      [] OTHER                                 -> g

\* A running open() is a record s: the flag, the context, the calls issued so
\* far (each with the value the flag had when it was issued) and the local
\* `vao`. Issue is one `gl.X(..)` of the code.
Issue(s, c, a) ==
    [s EXCEPT !.gl = GlApply(s.gl, c, a),
              !.calls = Append(s.calls, [call |-> c, open |-> s.open])]

\* ------------------------------------------------ PhysicalDevice::open
\* Variant: open() without the single-device check.
AlreadyOpen_never(s) == FALSE

\* if self.0.open.get() { return Err(TooManyObjects) }
AlreadyOpen(s) == s.open

\* Variant: open() that forgets to set the flag.
SetOpen_skipped(s) == s

\* self.0.open.set(true)
SetOpen(s) == [s EXCEPT !.open = TRUE]

\* Variant: `intersects` in place of `contains`.
MissingFeature_intersects(req) == req \cap share.features = {}

\* !self.features().contains(requested_features)
MissingFeature(req) == ~(req \subseteq share.features)

\* "initialize permanent states"
InitPermanentStates(s) ==
    LET s1 == IF "SRGB_COLOR" \in share.legacy_features
              THEN Issue(s, "Enable(FRAMEBUFFER_SRGB)", 0) ELSE s
        s2 == Issue(s1, "PixelStorei(UNPACK_ALIGNMENT,1)", 0)
    IN  IF ~share.is_embedded
        THEN Issue(s2, "Enable(PROGRAM_POINT_SIZE)", 0) ELSE s2

\* Variant: the vertex array created whatever the registry reports.
CreateMainVao_always(s) ==
    LET s1 == Issue(s, "GenVertexArrays", 0)
        s2 == [s1 EXCEPT !.vao = s1.gl.vaos]
    IN  Issue(s2, "BindVertexArray", s2.vao)

\* "create main VAO and bind it"
CreateMainVao(s) ==
    IF share.vertex_array
    THEN LET s1 == Issue(s, "GenVertexArrays", 0)
             s2 == [s1 EXCEPT !.vao = s1.gl.vaos]
         IN  Issue(s2, "BindVertexArray", s2.vao)
    ELSE s

\* Share::check: in a debug build reads the context's error flag (`glerr` is
\* what GetError reports); compiled out otherwise.
Check(s, glerr) ==
    IF share.debug_assertions
    THEN [s |-> Issue(s, "GetError", 0), err |-> glerr]
    ELSE [s |-> s, err |-> FALSE]

\* ------------------------------------------------ QueueFamily
\* QueueFamily::max_queues
MaxQueues == 1

\* QueueFamily::queue_type and QueueFamily::id, of every family.
QueueFamilyOf == [queue_type |-> "General", max_queues |-> MaxQueues, id |-> 0]

\* Variant: a group built without family.add_queue(queue).
QueueGroup_empty(i, vao) == [family |-> i, queues |-> <<>>]

\* The closure of the queues' map: assert_eq!(priorities.len(), 1), then one
\* RawQueueGroup holding one CommandQueue::new(&self.0, vao). The queue keeps
\* a clone of the wrapper it is handed, and the baseline vertex array.
QueueGroup(i, vao) ==
    [family |-> i,
     queues |-> <<[share |-> CloneOf(pd, pd.thread), vao |-> vao]>>]

\* The queues of a sequence of groups, counted.
RECURSIVE QueueCount(_)
QueueCount(groups) ==
    IF groups = <<>> THEN 0
    ELSE Len(Head(groups).queues) + QueueCount(Tail(groups))

\* Variant: the queues built without the assertion on the priorities.
QueuesNew_unchecked(fams, vao) ==
    [panic  |-> FALSE,
     groups |-> [i \in 1..Len(fams) |-> QueueGroup(i, vao)]]

\* families.into_iter().map(..).collect(): the groups of the families before
\* the first one whose assertion fails, and whether one failed.
QueuesNew(fams, vao) ==
    LET bad == {i \in 1..Len(fams) : fams[i] # 1}
    IN  [panic  |-> bad # {},
         groups |-> IF bad # {} THEN <<>>
                    ELSE [i \in 1..Len(fams) |-> QueueGroup(i, vao)]]

\* Drop of Device: the destructor's write to Share.open.
DeviceDrop(o) == FALSE

\* The whole of open(), for caller thread t: the result, the flag and the
\* context it leaves, the calls it issued, and the Gpu it returns.
OpenOutcome(t, req, fams, glerr) ==
    LET s0 == [open |-> open, gl |-> gl, calls |-> <<>>, vao |-> 0]
        \* Each wrapper the returned Gpu holds is one more strong reference.
        Out(r, s, o, dev, groups) ==
            [result |-> r, open |-> o, gl |-> s.gl, calls |-> s.calls,
             device |-> dev, groups |-> groups, vao |-> s.vao,
             share |-> CloneOf(pd, t),
             strong |-> IF dev THEN strong + 1 + QueueCount(groups)
                        ELSE strong]
    IN  IF ~DerefOk(pd, t) THEN Out("panic:thread", s0, s0.open, FALSE, <<>>)
        ELSE IF AlreadyOpen(s0)
        THEN Out("TooManyObjects", s0, s0.open, FALSE, <<>>)
        ELSE LET s1 == SetOpen(s0) IN
        IF MissingFeature(req)
        THEN Out("MissingFeature", s1, s1.open, FALSE, <<>>)
        ELSE LET c == Check(CreateMainVao(InitPermanentStates(s1)), glerr) IN
        IF c.err THEN Out("panic:check", c.s, c.s.open, FALSE, <<>>)
        ELSE LET q == QueuesNew(fams, c.s.vao) IN
        \* Device::new(self.0.clone()) is built before the queues: a failed
        \* assertion unwinds through it and runs its destructor.
        IF q.panic
        THEN Out("panic:priorities", c.s, DeviceDrop(c.s.open), FALSE, <<>>)
        ELSE Out("Ok", c.s, c.s.open, TRUE, q.groups)

\* ------------------------------------- PhysicalDevice::memory_properties
\* vec![!0, !0]: two heaps of unknown size, whatever the capability flags.
MemoryHeaps == <<"u64::MAX", "u64::MAX">>

\* The memory types: a function of private_caps.map alone.
MemoryTypes(map) ==
    IF map
    THEN << [properties |-> {"DEVICE_LOCAL"}, heap_index |-> 1],
            [properties |-> {"CPU_VISIBLE", "COHERENT"}, heap_index |-> 0],
            [properties |-> {"CPU_VISIBLE", "COHERENT", "CPU_CACHED"},
             heap_index |-> 0] >>
    ELSE << [properties |-> {"DEVICE_LOCAL"}, heap_index |-> 0] >>

MemoryPropertiesOf(map) ==
    [memory_types |-> MemoryTypes(map), memory_heaps |-> MemoryHeaps]

\* ------------------------------------------------ Spec: state and actions
\* All sequences over S of length at most n.
SeqsUpTo(S, n) == UNION {[1..k -> S] : k \in 0..n}

\* What `families` can be: for each requested family, the length of its
\* priority slice (QueueFamily is a unit struct, so nothing else varies).
FamilyLists == SeqsUpTo(PriorityLens, MaxFamilies)

\* The capability registries an adapter can report.
Shares ==
    [features         : SUBSET FeatureBits,
     legacy_features  : {{}, {"SRGB_COLOR"}},
     is_embedded      : BOOLEAN,
     vertex_array     : BOOLEAN,
     map              : BOOLEAN,
     debug_assertions : BOOLEAN]

\* `last` and `memProps` observe one call: its inputs, its outcome and the
\* state it started from. Resume clears them when the caller carries on, and
\* the next operation starts from a cleared observation (NoLast, NoMemProps:
\* nothing observed).
NoLast == [op |-> "none"]

NoMemProps == [called |-> FALSE]

\* What GetError can report to check(): read in debug builds only.
GlErrors == IF share.debug_assertions THEN BOOLEAN ELSE {FALSE}

\* Gpu ids held by the application.
UsedGpus == {g.id : g \in gpus}

\* PhysicalDevice::new_adapter on the adapter's thread: Share { .., open:
\* false } wrapped by Starc::new, no call issued by open() yet.
InitOpen ==
    /\ share \in Shares
    /\ open = FALSE
    /\ pd = [thread |-> AdapterThread]
    /\ strong = 1
    /\ gl = GlInit
    /\ gpus = {}
    /\ aborted = FALSE
    /\ last = NoLast
    /\ memProps = NoMemProps

\* One call of open() on thread t. The model stops opening once the
\* application holds MaxGpus Gpu values or the context has handed out
\* MaxVaos vertex-array names.
Open(t, req, fams, glerr) ==
    /\ last = NoLast
    /\ UsedGpus # GpuIds
    /\ gl.vaos < MaxVaos
    /\ \E o \in {OpenOutcome(t, req, fams, glerr)} :
       \E id \in {i \in GpuIds \ UsedGpus : \A j \in GpuIds \ UsedGpus : i <= j} :
           /\ open' = o.open
           /\ gl' = o.gl
           /\ aborted' = (aborted \/ o.result = "panic:check")
           /\ gpus' = IF o.device
                      THEN gpus \cup {[id |-> id,
                                        device |-> [share |-> o.share],
                                        groups |-> o.groups]}
                      ELSE gpus
           /\ strong' = o.strong
           /\ last' = [op |-> "open", thread |-> t, req |-> req,
                       fams |-> fams, result |-> o.result, calls |-> o.calls,
                       gpu |-> IF o.device THEN id ELSE 0, vao |-> o.vao,
                       open_before |-> open, gl_before |-> gl,
                       gpus_before |-> gpus, strong_before |-> strong]
    /\ UNCHANGED <<share, pd, memProps>>

\* The application drops a Gpu: the Device's destructor runs.
DestroyDevice(id) ==
    /\ last = NoLast
    /\ id \in UsedGpus
    /\ gpus' = {g \in gpus : g.id # id}
    /\ strong' = LET g == CHOOSE h \in gpus : h.id = id
                  IN  strong - 1 - QueueCount(g.groups)
    /\ open' = DeviceDrop(open)
    /\ last' = [op |-> "drop_device", gpu |-> id, open_before |-> open,
                 gpus_before |-> gpus]
    /\ UNCHANGED <<share, pd, gl, aborted, memProps>>

\* One call of memory_properties() on thread t: `self.0.private_caps` goes
\* through Starc::deref.
MemoryProperties(t) ==
    /\ last = NoLast
    /\ memProps' =
         IF DerefOk(pd, t)
         THEN LET m == MemoryPropertiesOf(share.map)
              IN  [called |-> TRUE, thread |-> t, panic |-> FALSE,
                   memory_types |-> m.memory_types,
                   memory_heaps |-> m.memory_heaps]
         ELSE [called |-> TRUE, thread |-> t, panic |-> TRUE]
    /\ last' = [op |-> "memory_properties", thread |-> t]
    /\ UNCHANGED <<share, open, pd, gl, gpus, aborted, strong>>

\* The caller carries on with the result of the call it made.
Resume ==
    /\ last # NoLast
    /\ last' = NoLast
    /\ memProps' = NoMemProps
    /\ UNCHANGED <<share, open, pd, gl, gpus, aborted, strong>>

\* ------------------------------------------------ Starc and Wstarc
\* The values a wrapped T can take.
Values == {"a", "b"}

Slots == 1..MaxStarcs
WSlots == 1..MaxWstarcs

\* An empty slot. A wrapper is its `thread` field and the thread that owns
\* the wrapper value at the moment (`at`): Send lets the owner change.
NoWrapper == [thread |-> "", at |-> ""]

Live(ws) == {i \in DOMAIN ws : ws[i] # NoWrapper}
FreeSlot(ws) == {i \in DOMAIN ws : ws[i] = NoWrapper /\ \A j \in DOMAIN ws : ws[j] = NoWrapper => i <= j}

NoSLast == [op |-> "none"]

\* The record of one wrapper operation on the state it started from.
Observe(op, by, slot, result, value, made) ==
    [op |-> op, by |-> by, slot |-> slot, result |-> result, value |-> value,
     made |-> made, starcs_before |-> starcs, wstarcs_before |-> wstarcs,
     arc_before |-> arc]

\* Starc::new(value) on thread t: Arc::new and thread::current().id().
StarcNew(t, v) ==
    /\ starcs = [i \in Slots |-> IF i = 1 THEN [thread |-> t, at |-> t]
                                        ELSE NoWrapper]
    /\ wstarcs = [j \in WSlots |-> NoWrapper]
    /\ arc = [strong |-> 1, weak |-> 0, value |-> v, state |-> "live",
              created_on |-> t, freed_on |-> ""]
    /\ slast = NoSLast

\* Clone::clone through a shared reference held by thread u (Starc is Sync).
StarcClone(u, i) ==
    /\ slast = NoSLast
    /\ i \in Live(starcs)
    /\ \E k \in FreeSlot(starcs) :
       \E w \in {[thread |-> CloneOf(starcs[i], u).thread, at |-> u]} :
           /\ starcs' = [starcs EXCEPT ![k] = w]
           /\ arc' = [arc EXCEPT !.strong = @ + 1]
           /\ slast' = Observe("clone", u, i, "ok", "", w)
    /\ UNCHANGED wstarcs

\* A Starc value is moved to thread u (unsafe impl Send for Starc).
StarcSend(i, u) ==
    /\ slast = NoSLast
    /\ i \in Live(starcs)
    /\ starcs[i].at # u
    /\ starcs' = [starcs EXCEPT ![i].at = u]
    /\ slast' = Observe("send", starcs[i].at, i, "ok", "", starcs'[i])
    /\ UNCHANGED <<wstarcs, arc>>

\* A Wstarc value is moved to thread u (unsafe impl Send for Wstarc).
WstarcSend(j, u) ==
    /\ slast = NoSLast
    /\ j \in Live(wstarcs)
    /\ wstarcs[j].at # u
    /\ wstarcs' = [wstarcs EXCEPT ![j].at = u]
    /\ slast' = Observe("send_weak", wstarcs[j].at, j, "ok", "", wstarcs'[j])
    /\ UNCHANGED <<starcs, arc>>

\* The owner drops a Starc: the drop of its `arc` field. The last strong
\* reference runs T's destructor on the dropping thread.
StarcDrop(i) ==
    /\ slast = NoSLast
    /\ i \in Live(starcs)
    /\ starcs' = [starcs EXCEPT ![i] = NoWrapper]
    /\ arc' = IF arc.strong = 1
              THEN [arc EXCEPT !.strong = 0, !.state = "dropped",
                               !.freed_on = starcs[i].at]
              ELSE [arc EXCEPT !.strong = @ - 1]
    /\ slast' = Observe("drop", starcs[i].at, i, "ok", "", NoWrapper)
    /\ UNCHANGED wstarcs

\* The owner drops a Wstarc: the drop of its `weak` field.
WstarcDrop(j) ==
    /\ slast = NoSLast
    /\ j \in Live(wstarcs)
    /\ wstarcs' = [wstarcs EXCEPT ![j] = NoWrapper]
    /\ arc' = [arc EXCEPT !.weak = @ - 1]
    /\ slast' = Observe("drop_weak", wstarcs[j].at, j, "ok", "", NoWrapper)
    /\ UNCHANGED starcs

\* Deref::deref through a shared reference held by thread u.
StarcDeref(u, i) ==
    /\ slast = NoSLast
    /\ i \in Live(starcs)
    /\ slast' = IF DerefOk(starcs[i], u)
                THEN Observe("deref", u, i, "ref", arc.value, NoWrapper)
                ELSE Observe("deref", u, i, "panic", "", NoWrapper)
    /\ UNCHANGED <<starcs, wstarcs, arc>>

\* The fields of Starc::downgrade's result: thread: this.thread.
DowngradeOf(w, cur) == [thread |-> w.thread]

\* Starc::downgrade through a shared reference held by thread u.
StarcDowngrade(u, i) ==
    /\ slast = NoSLast
    /\ i \in Live(starcs)
    /\ \E k \in FreeSlot(wstarcs) :
       \E w \in {[thread |-> DowngradeOf(starcs[i], u).thread, at |-> u]} :
           /\ wstarcs' = [wstarcs EXCEPT ![k] = w]
           /\ arc' = [arc EXCEPT !.weak = @ + 1]
           /\ slast' = Observe("downgrade", u, i, "ok", "", w)
    /\ UNCHANGED starcs

\* Variant: upgrade asks for a strong holder besides the one it would make.
WeakUpgrades_other(a) == a.strong > 1

\* Weak::upgrade: a new strong reference unless the strong count is zero.
WeakUpgrades(a) == a.strong > 0

\* The fields of Wstarc::upgrade's result: thread: self.thread.
UpgradeOf(w, cur) == [thread |-> w.thread]

\* Wstarc::upgrade through a shared reference held by thread u.
WstarcUpgrade(u, j) ==
    /\ slast = NoSLast
    /\ j \in Live(wstarcs)
    /\ IF WeakUpgrades(arc)
       THEN \E k \in FreeSlot(starcs) :
            \E w \in {[thread |-> UpgradeOf(wstarcs[j], u).thread, at |-> u]} :
                /\ starcs' = [starcs EXCEPT ![k] = w]
                /\ arc' = [arc EXCEPT !.strong = @ + 1]
                /\ slast' = Observe("upgrade", u, j, "Some", "", w)
       ELSE /\ slast' = Observe("upgrade", u, j, "None", "", NoWrapper)
            /\ UNCHANGED <<starcs, arc>>
    /\ UNCHANGED wstarcs

\* Variant: try_unwrap with get_mut's condition (no Weak either).
ArcUnwraps_unique(a) == a.strong = 1 /\ a.weak = 0

\* Arc::try_unwrap: succeeds when there is exactly one strong reference.
ArcUnwraps(a) == a.strong = 1

\* The wrapper that a failed Starc::try_unwrap gives back:
\* Starc { arc: a, thread: thread }.
TryUnwrapErr(w, cur) == [thread |-> w.thread]

\* Starc::try_unwrap(self) by the owner of the value.
StarcTryUnwrap(i) ==
    /\ slast = NoSLast
    /\ i \in Live(starcs)
    /\ IF ArcUnwraps(arc)
       THEN /\ starcs' = [starcs EXCEPT ![i] = NoWrapper]
            /\ arc' = [arc EXCEPT !.strong = 0, !.state = "unwrapped"]
            /\ slast' = Observe("try_unwrap", starcs[i].at, i, "Ok",
                                arc.value, NoWrapper)
       ELSE \E w \in {[thread |-> TryUnwrapErr(starcs[i], starcs[i].at).thread,
                       at |-> starcs[i].at]} :
            /\ starcs' = [starcs EXCEPT ![i] = w]
            /\ arc' = arc
            /\ slast' = Observe("try_unwrap", starcs[i].at, i, "Err", "", w)
    /\ UNCHANGED wstarcs

\* Arc::get_mut: a reference when no other Arc or Weak points to the value.
ArcIsUnique(a) == a.strong = 1 /\ a.weak = 0

\* Starc::get_mut(&mut this) by the owner of the value, who may then write
\* v through the reference.
StarcGetMut(i, v) ==
    /\ slast = NoSLast
    /\ i \in Live(starcs)
    /\ IF ArcIsUnique(arc)
       THEN /\ arc' = [arc EXCEPT !.value = v]
            /\ slast' = Observe("get_mut", starcs[i].at, i, "Some",
                                arc.value, NoWrapper)
       ELSE /\ arc' = arc
            /\ slast' = Observe("get_mut", starcs[i].at, i, "None", "",
                                NoWrapper)
    /\ UNCHANGED <<starcs, wstarcs>>

\* The caller carries on with the result of the operation.
ResumeStarc ==
    /\ slast # NoSLast
    /\ slast' = NoSLast
    /\ UNCHANGED <<starcs, wstarcs, arc>>

\* ------------------------------------------------ queue submission
\* A thread that is not inside a submit() call.
NoSubmit == [state |-> "idle"]

\* No submission has been made.
SubmitIdle ==
    /\ submits = [t \in Threads |-> NoSubmit]
    /\ batches = 0
    /\ native = <<>>

\* The Command Queue of family i of the Gpu id.
QueueOf(id, i) == (CHOOSE g \in gpus : g.id = id).groups[i].queues[1]

\* Thread t calls submit() on the queue of family i of Gpu id with a batch
\* of n commands. The queue reaches the context through its clone of the
\* wrapper, which asserts the thread.
SubmitBegin(t, id, i, n) ==
    /\ last = NoLast
    /\ submits[t] = NoSubmit
    /\ batches < MaxBatches
    /\ id \in UsedGpus
    /\ i \in DOMAIN (CHOOSE g \in gpus : g.id = id).groups
    /\ IF DerefOk(QueueOf(id, i).share, t)
       THEN /\ submits' = [submits EXCEPT ![t] =
                              [state |-> "replaying", gpu |-> id, family |-> i,
                               batch |-> batches + 1, len |-> n, pc |-> 0]]
            /\ batches' = batches + 1
       ELSE /\ submits' = [submits EXCEPT ![t] = [state |-> "panicked"]]
            /\ batches' = batches
    /\ UNCHANGED native

\* The submit() call of thread t replays the next command of its batch: one
\* native call, reached through the wrapper again.
SubmitStep(t) ==
    /\ submits[t].state = "replaying"
    /\ submits[t].pc < submits[t].len
    /\ IF DerefOk(QueueOf(submits[t].gpu, submits[t].family).share, t)
       THEN /\ native' = Append(native,
                              [gpu |-> submits[t].gpu,
                               family |-> submits[t].family,
                               batch |-> submits[t].batch,
                               thread |-> t])
            /\ submits' = [submits EXCEPT ![t].pc = @ + 1]
       ELSE /\ native' = native
            /\ submits' = [submits EXCEPT ![t] = [state |-> "panicked"]]
    /\ UNCHANGED batches

\* The submit() call of thread t ends: its batch is replayed, or the failed
\* assertion has unwound it.
SubmitEnd(t) ==
    /\ \/ submits[t].state = "panicked"
       \/ submits[t].state = "replaying" /\ submits[t].pc = submits[t].len
    /\ submits' = [submits EXCEPT ![t] = NoSubmit]
    /\ UNCHANGED <<batches, native>>

\* ------------------------------------------------ the specifications
\* The wrapper variables while Spec runs: the physical device's own wrapper
\* is `pd`, and no other wrapper is modelled there.
StarcIdle ==
    /\ starcs = <<>>
    /\ wstarcs = <<>>
    /\ arc = [state |-> "none"]
    /\ slast = NoSLast

\* The device variables while SpecStarc runs: no adapter is enumerated.
OpenIdle ==
    /\ share = [features |-> {}, legacy_features |-> {},
                is_embedded |-> FALSE, vertex_array |-> FALSE,
                map |-> FALSE, debug_assertions |-> FALSE]
    /\ open = FALSE
    /\ pd = [thread |-> ""]
    /\ strong = 0
    /\ gl = GlInit
    /\ gpus = {}
    /\ aborted = FALSE
    /\ last = NoLast
    /\ memProps = NoMemProps

Init == InitOpen /\ StarcIdle /\ SubmitIdle

Next ==
    \/ \E t \in Threads, req \in SUBSET FeatureBits, fams \in FamilyLists,
          glerr \in GlErrors : Open(t, req, fams, glerr) /\ UNCHANGED <<starcVars, subVars>>
    \/ \E id \in GpuIds : DestroyDevice(id) /\ UNCHANGED <<starcVars, subVars>>
    \/ \E t \in Threads : MemoryProperties(t) /\ UNCHANGED <<starcVars, subVars>>
    \/ Resume /\ UNCHANGED <<starcVars, subVars>>

Spec == Init /\ [][Next]_vars

InitStarc == OpenIdle /\ SubmitIdle /\ \E t \in Threads, v \in Values : StarcNew(t, v)

NextStarc ==
    \/ \E u \in Threads, i \in Slots : StarcClone(u, i) /\ UNCHANGED <<openVars, subVars>>
    \/ \E i \in Slots, u \in Threads : StarcSend(i, u) /\ UNCHANGED <<openVars, subVars>>
    \/ \E j \in WSlots, u \in Threads : WstarcSend(j, u) /\ UNCHANGED <<openVars, subVars>>
    \/ \E i \in Slots : StarcDrop(i) /\ UNCHANGED <<openVars, subVars>>
    \/ \E j \in WSlots : WstarcDrop(j) /\ UNCHANGED <<openVars, subVars>>
    \/ \E u \in Threads, i \in Slots : StarcDeref(u, i) /\ UNCHANGED <<openVars, subVars>>
    \/ \E u \in Threads, i \in Slots : StarcDowngrade(u, i) /\ UNCHANGED <<openVars, subVars>>
    \/ \E u \in Threads, j \in WSlots : WstarcUpgrade(u, j) /\ UNCHANGED <<openVars, subVars>>
    \/ \E i \in Slots : StarcTryUnwrap(i) /\ UNCHANGED <<openVars, subVars>>
    \/ \E i \in Slots, v \in Values : StarcGetMut(i, v) /\ UNCHANGED <<openVars, subVars>>
    \/ ResumeStarc /\ UNCHANGED <<openVars, subVars>>

SpecStarc == InitStarc /\ [][NextStarc]_vars

\* Submissions to the queues of an opened device. The registry varies only
\* in vertex-array support, which decides the queues' baseline id; the
\* device is opened before the first submission.
InitSubmit ==
    /\ InitOpen
    /\ share.features = FeatureBits
    /\ share.legacy_features = {}
    /\ ~share.is_embedded
    /\ ~share.map
    /\ ~share.debug_assertions
    /\ StarcIdle
    /\ SubmitIdle

NextSubmit ==
    \/ \E t \in Threads, req \in SUBSET FeatureBits, fams \in FamilyLists,
          glerr \in GlErrors :
          /\ SubmitIdle
          /\ Open(t, req, fams, glerr)
          /\ UNCHANGED <<starcVars, subVars>>
    \/ Resume /\ UNCHANGED <<starcVars, subVars>>
    \/ \E t \in Threads, id \in GpuIds, i \in 1..MaxFamilies, n \in BatchLens :
          SubmitBegin(t, id, i, n) /\ UNCHANGED <<openVars, starcVars>>
    \/ \E t \in Threads : SubmitStep(t) /\ UNCHANGED <<openVars, starcVars>>
    \/ \E t \in Threads : SubmitEnd(t) /\ UNCHANGED <<openVars, starcVars>>

SpecSubmit == InitSubmit /\ [][NextSubmit]_vars

\* ------------------------------------------------------------ the claims
\* The last call of open() ran on the thread of the physical device's
\* wrapper, so it got through Starc::deref.
OnOwnThread == DerefOk(pd, last.thread)

\* The last call of open() returned to its caller (it did not panic).
Returned == last.result \in {"Ok", "TooManyObjects", "MissingFeature"}

\* C1: at most one Device is alive for the shared state at any time, and no
\* open() issued while the open flag is set returns anything but
\* TooManyObjects (on a foreign thread it does not return at all: the
\* wrapper's assertion fails).
C1_SingleOpenDevice ==
    /\ Cardinality(gpus) <= 1
    /\ (last.op = "open" /\ last.open_before) =>
          /\ last.result \in {"TooManyObjects", "panic:thread"}
          /\ (OnOwnThread => last.result = "TooManyObjects")

\* C1 witness: a Device is alive, and an open() issued with the flag set
\* has returned TooManyObjects.
C1_Witness ==
    /\ last.op = "open"
    /\ last.open_before
    /\ last.result = "TooManyObjects"
    /\ Cardinality(gpus) = 1

\* C2 (as claimed): an open() that returned an error while no Device is
\* alive, outside the fatal-abort paths, leaves the open flag unset.
C2_FailedOpenLeavesFlagUnset ==
    (/\ last.op = "open"
     /\ last.result \in {"MissingFeature", "TooManyObjects"}
     /\ gpus = {}
     /\ ~aborted) => ~open

\* C3 (as claimed, for the calls made while a Device is alive): an open()
\* on the device's own thread with a requested feature set that the reported
\* set does not contain returns MissingFeature, issues no native call and
\* constructs nothing.
C3_AlwaysMissingFeature ==
    (/\ last.op = "open"
     /\ OnOwnThread
     /\ last.gpus_before # {}
     /\ ~(last.req \subseteq share.features)) =>
        /\ last.result = "MissingFeature"
        /\ last.calls = <<>>
        /\ last.gpu = 0

\* C3 (amended): an open() with a requested feature set that the reported
\* set does not contain issues no native call and constructs no Device or
\* Command Queue, leaves the context and the Gpu values as they were, and
\* returns MissingFeature whenever it is issued on the device's own thread
\* with the open flag clear (with the flag set it returns TooManyObjects).
C3_MissingFeature ==
    (last.op = "open" /\ ~(last.req \subseteq share.features)) =>
        /\ last.calls = <<>>
        /\ last.gpu = 0
        /\ gl = last.gl_before
        /\ gpus = last.gpus_before
        /\ (OnOwnThread /\ ~last.open_before) => last.result = "MissingFeature"
        /\ (OnOwnThread /\ last.open_before) => last.result = "TooManyObjects"

\* C3 witness: an open() asking for an unsupported feature has returned
\* MissingFeature.
C3_Witness ==
    /\ last.op = "open"
    /\ ~(last.req \subseteq share.features)
    /\ last.result = "MissingFeature"

\* C4: an open() issued while the Device of an earlier open() is alive
\* returns TooManyObjects and changes nothing: the flag, the context (no
\* call, no vertex array allocated or bound), the Device and its queues.
C4_SecondOpenChangesNothing ==
    (last.op = "open" /\ last.gpus_before # {}) =>
        /\ OnOwnThread => last.result = "TooManyObjects"
        /\ ~Returned \/ last.result = "TooManyObjects"
        /\ open = last.open_before
        /\ last.calls = <<>>
        /\ gl = last.gl_before
        /\ gpus = last.gpus_before

\* C4 witness: the second open() has returned TooManyObjects while the
\* first Device, opened on a context with vertex arrays, is alive.
C4_Witness ==
    /\ last.op = "open"
    /\ last.gpus_before # {}
    /\ last.result = "TooManyObjects"
    /\ gl.vaos > 0

\* C5 (as claimed): outside the fatal-abort paths the open flag is never
\* left set with no Device alive, so an open() can follow every destroyed
\* Device.
C5_FlagSetOnlyWhileDeviceAlive == (open /\ gpus = {}) => aborted

\* C6 (as claimed): memory_properties() returns 1 type and 1 heap without
\* native mapping, 3 types and 2 heaps with it, and a DEVICE_LOCAL type in
\* both cases, whatever the other flags and the open flag are.
C6_MemoryProperties ==
    (memProps.called /\ ~memProps.panic) =>
        /\ Len(memProps.memory_types) = (IF share.map THEN 3 ELSE 1)
        /\ Len(memProps.memory_heaps) = (IF share.map THEN 2 ELSE 1)
        /\ \E i \in DOMAIN memProps.memory_types :
              "DEVICE_LOCAL" \in memProps.memory_types[i].properties

\* C7: a deref of a Starc, or of a clone of it wherever it was moved,
\* yields a reference exactly when it runs on the thread that called
\* Starc::new, and fails the assertion on every other thread.
C7_DerefOnlyOnCreatingThread ==
    slast.op = "deref" =>
        /\ slast.result \in {"ref", "panic"}
        /\ slast.result = "ref" <=> slast.by = arc.created_on
        /\ slast.result = "ref" => slast.value = arc.value

\* C7 witness: a clone that was moved to another thread is dereferenced
\* there and the assertion fails.
C7_Witness ==
    /\ slast.op = "deref"
    /\ slast.slot # 1
    /\ slast.starcs_before[slast.slot].at # arc.created_on
    /\ slast.by = slast.starcs_before[slast.slot].at
    /\ slast.result = "panic"

\* C8 (as claimed): every operation that yields the inner value or a
\* reference to it (deref, get_mut, try_unwrap) does so on the creating
\* thread only.
C8_InnerValueOnlyOnCreatingThread ==
    (/\ slast.op \in {"deref", "get_mut", "try_unwrap"}
     /\ slast.result \in {"ref", "Some", "Ok"}) => slast.by = arc.created_on

\* C9: Wstarc::upgrade returns a strong wrapper exactly when at least one
\* strong wrapper of the state is alive at the call; a successful upgrade
\* adds one strong holder and a failed one changes no count.
C9_Upgrade ==
    slast.op = "upgrade" =>
        LET n == Cardinality(Live(slast.starcs_before))
        IN  /\ slast.result \in {"Some", "None"}
            /\ slast.result = "Some" <=> n >= 1
            /\ slast.result = "Some" =>
                  /\ Cardinality(Live(starcs)) = n + 1
                  /\ arc.strong = slast.arc_before.strong + 1
                  /\ arc.weak = slast.arc_before.weak
            /\ slast.result = "None" =>
                  /\ starcs = slast.starcs_before
                  /\ wstarcs = slast.wstarcs_before
                  /\ arc = slast.arc_before

\* C9 witness: every strong wrapper has been dropped and an upgrade of a
\* surviving weak wrapper has returned nothing.
C9_Witness ==
    /\ slast.op = "upgrade"
    /\ slast.result = "None"
    /\ arc.state = "dropped"
    /\ Live(starcs) = {}

BadPriorities == \E i \in DOMAIN last.fams : last.fams[i] # MaxQueues

\* C11 (as claimed): every family reports max_queues() = 1, and an open()
\* on the device's own thread in which some family asks for another number
\* of queues does not return: it fails by assertion, and leaves no Device
\* and no queues.
C11_BadPrioritiesAlwaysAssert ==
    (last.op = "open" /\ OnOwnThread /\ BadPriorities) =>
        /\ QueueFamilyOf.max_queues = 1
        /\ ~Returned
        /\ last.gpu = 0
        /\ gpus = last.gpus_before

\* C11 (amended): every family reports max_queues() = 1, and an open() in
\* which some family asks for another number of queues never returns a
\* Device or queues; it fails by the assertion on the priorities whenever it
\* gets as far as building the queues (own thread, flag clear, features
\* supported, no native error reported), and fails earlier otherwise.
C11_BadPriorities ==
    (last.op = "open" /\ BadPriorities) =>
        /\ QueueFamilyOf.max_queues = 1
        /\ last.result # "Ok"
        /\ last.gpu = 0
        /\ gpus = last.gpus_before
        /\ (/\ OnOwnThread
            /\ ~last.open_before
            /\ last.req \subseteq share.features
            /\ last.result # "panic:check") => last.result = "panic:priorities"
        /\ last.result = "panic:priorities" =>
              /\ OnOwnThread
              /\ ~last.open_before
              /\ last.req \subseteq share.features

\* C11 witness: an open() asking one family for two queues, after a family
\* asking for one, has failed the assertion.
C11_Witness ==
    /\ last.op = "open"
    /\ last.fams = <<1, 2>>
    /\ last.result = "panic:priorities"
    /\ gpus = {}

\* C13: in every open() that issues at least one native call, the open flag
\* is already set when the first native call is issued (and so when every
\* later one is).
C13_FlagSetBeforeFirstNativeCall ==
    (last.op = "open" /\ last.calls # <<>>) =>
        /\ last.calls[1].open
        /\ \A k \in DOMAIN last.calls : last.calls[k].open

\* C13 witness: an open() that found the flag clear has issued native calls.
C13_Witness ==
    /\ last.op = "open"
    /\ ~last.open_before
    /\ Len(last.calls) > 1
    /\ last.result = "Ok"

\* C14: an open() that returns Ok returns exactly one Device, which holds a
\* clone of the Physical Device's wrapper (the strong count of the one
\* shared state grows, the capability registry is the same), and one queue
\* group per entry of `families`, each holding exactly one Command Queue.
C14_OneDeviceOneQueuePerFamily ==
    (last.op = "open" /\ last.result = "Ok") =>
        /\ gpus \ last.gpus_before = {g \in gpus : g.id = last.gpu}
        /\ Cardinality(gpus \ last.gpus_before) = 1
        /\ last.gpus_before \subseteq gpus
        /\ strong > last.strong_before
        /\ \A g \in gpus \ last.gpus_before :
              /\ g.device.share = pd
              /\ Len(g.groups) = Len(last.fams)
              /\ \A i \in DOMAIN g.groups :
                    /\ g.groups[i].family = i
                    /\ Len(g.groups[i].queues) = 1

\* C14 witness: an open() asking for two families has returned Ok.
C14_Witness ==
    /\ last.op = "open"
    /\ last.result = "Ok"
    /\ Len(last.fams) = MaxFamilies
    /\ \E g \in gpus : g.id = last.gpu /\ Len(g.groups) = MaxFamilies

\* How many of the calls of the last open() are the native call c.
CallCount(c) == Cardinality({k \in DOMAIN last.calls : last.calls[k].call = c})

\* C15: an open() that returns Ok allocates one vertex array and binds it
\* when the registry reports vertex-array support, and allocates and binds
\* none when it does not; every queue it returns carries the same baseline
\* id: the allocated name when supported, 0 when not.
C15_BaselineVertexArray ==
    (last.op = "open" /\ last.result = "Ok") =>
        /\ share.vertex_array =>
              /\ CallCount("GenVertexArrays") = 1
              /\ CallCount("BindVertexArray") = 1
              /\ gl.vaos = last.gl_before.vaos + 1
              /\ last.vao = gl.vaos
              /\ last.vao # 0
              /\ gl.bound = last.vao
        /\ ~share.vertex_array =>
              /\ CallCount("GenVertexArrays") = 0
              /\ CallCount("BindVertexArray") = 0
              /\ gl.vaos = last.gl_before.vaos
              /\ gl.bound = last.gl_before.bound
              /\ last.vao = 0
        /\ \A g \in gpus \ last.gpus_before :
              \A i \in DOMAIN g.groups :
                  \A k \in DOMAIN g.groups[i].queues :
                      g.groups[i].queues[k].vao = last.vao

\* C15 witness: with vertex-array support, a second open() has returned Ok
\* with two queues that carry the second name the context handed out.
C15_Witness ==
    /\ last.op = "open"
    /\ last.result = "Ok"
    /\ share.vertex_array
    /\ last.gl_before.vaos = 1
    /\ last.vao = 2
    /\ \E g \in gpus : g.id = last.gpu /\ Len(g.groups) = 2

\* C16: every strong and weak wrapper derived from one Starc::new, through
\* clone, downgrade, upgrade or a failed try_unwrap performed on any thread,
\* carries the thread identity Starc::new captured, never the identity of
\* the thread that made the derivation.
C16_WrappersKeepCreatingThread ==
    /\ \A i \in Live(starcs) : starcs[i].thread = arc.created_on
    /\ \A j \in Live(wstarcs) : wstarcs[j].thread = arc.created_on
    /\ (slast.op \in {"clone", "downgrade", "upgrade", "try_unwrap"}
          /\ slast.made # NoWrapper) =>
              slast.made.thread = slast.arc_before.created_on

\* C16 witness: a thread other than the creating one has upgraded a weak
\* wrapper (itself made by downgrade) and holds the strong wrapper it got.
C16_Witness ==
    /\ slast.op = "upgrade"
    /\ slast.result = "Some"
    /\ slast.by # arc.created_on
    /\ slast.made.at = slast.by
    /\ slast.made.thread = arc.created_on
    /\ \E i \in Live(starcs) : starcs[i] = slast.made

\* C17: an open() called from a thread other than the one that enumerated
\* the adapter fails the thread-identity assertion at its first access to
\* the shared state: it issues no native call, returns nothing, and leaves
\* the open flag, the context, the strong count and the live Devices exactly
\* as they were.
C17_OffThreadOpenFailsFirst ==
    (last.op = "open" /\ last.thread # pd.thread) =>
        /\ last.result = "panic:thread"
        /\ last.calls = <<>>
        /\ open = last.open_before
        /\ gl = last.gl_before
        /\ gpus = last.gpus_before
        /\ strong = last.strong_before
        /\ last.gpu = 0

\* C17 witness: an open() from the other thread, with supported features and
\* one queue per family, has panicked while a flag set by an earlier open()
\* stayed set.
C17_Witness ==
    /\ last.op = "open"
    /\ last.thread # AdapterThread
    /\ last.result = "panic:thread"
    /\ last.req \subseteq share.features
    /\ last.fams = <<1>>
    /\ last.open_before
    /\ open

\* C18 (as claimed): in every result of memory_properties() each memory
\* type's heap_index is less than the number of heaps returned, and each
\* returned heap is the heap of at least one returned memory type.
C18_HeapIndicesClosed ==
    (memProps.called /\ ~memProps.panic) =>
        /\ \A i \in DOMAIN memProps.memory_types :
              /\ memProps.memory_types[i].heap_index >= 0
              /\ memProps.memory_types[i].heap_index < Len(memProps.memory_heaps)
        /\ \A h \in 0..(Len(memProps.memory_heaps) - 1) :
              \E i \in DOMAIN memProps.memory_types :
                  memProps.memory_types[i].heap_index = h

\* C19 (as claimed): the value wrapped by a Starc is destroyed only on the
\* thread that created it: the drop that releases the last strong holder
\* runs on the creating thread, or is rejected and destroys nothing.
C19_DestroyedOnCreatingThread ==
    arc.state = "dropped" => arc.freed_on = arc.created_on

\* C12: when the queues of one open() share the context, the native calls
\* of two batches submitted to two different queues are never interleaved:
\* between two calls of one batch the context sees no call of a batch that
\* was submitted to another queue.
C12_BatchesNeverInterleaved ==
    \A a, b, c \in DOMAIN native :
        (a < b /\ b < c /\ native[a].batch = native[c].batch) =>
            /\ native[b].batch = native[a].batch
            /\ native[b].gpu = native[a].gpu
            /\ native[b].family = native[a].family

\* C12 witness: two batches of two commands each, submitted to the two
\* queues of one open(), have been replayed on the shared context.
C12_Witness ==
    /\ Len(native) = 4
    /\ native[1].gpu = native[4].gpu
    /\ native[1].family # native[4].family
    /\ native[1].batch = native[2].batch
    /\ native[3].batch = native[4].batch
    /\ native[1].batch # native[4].batch
    /\ \A t \in Threads : submits[t] = NoSubmit

====
